---- MODULE Spec2Model ----
(***************************************************************************)
(* A model of src/src/main.cpp: the command line tool that pins a running  *)
(* process to one CPU core.  One run of main is one behaviour: the build   *)
(* variant (platform) and the command line are fixed by Init, the answers  *)
(* of the operating system (core count, success or failure of the calls)   *)
(* are chosen by the actions.                                              *)
(*                                                                         *)
(* Integers wider than 31 bits are kept as little-endian sequences of four *)
(* 16-bit limbs with a sign (a 64-bit magnitude), so that long, pid_t and  *)
(* unsigned long keep their real widths.                                   *)
(***************************************************************************)
EXTENDS Integers, Sequences, FiniteSets, TLC

VARIABLES
    platform,      \* build variant: "win" (_WIN32), "linux" (__linux__), "other"
    argv,          \* the positional arguments argv[1..argc-1], each a sequence of characters
    pc,            \* position in main / set_process_affinity
    pid_long,      \* main's long pid_long (sign and magnitude)
    core_id,       \* main's int core_id
    num_cpus,      \* main's unsigned int num_cpus
    passedPid,     \* the pid parameter of set_process_affinity after the implicit conversion
    mask,          \* affinity_mask / cpuset, as the set of bit positions that are set
    hProcess,      \* "NULL" or "H": the handle held by set_process_affinity
    openHandles,   \* number of process handles currently open
    closeCount,    \* number of CloseHandle calls made
    lastError,     \* the thread's last-error value (GetLastError)
    failedErr,     \* the error code the failing platform call produced
    errReported,   \* the error code put into the exception message
    applyOk,       \* "none", "ok" or "failed": outcome of the apply call
    exc,           \* "none", or the kind of std::runtime_error in flight
    calls,         \* the library and platform calls made so far, in order
    out,           \* the kinds of messages printed so far, in order
    rangeMsg,      \* <<core_id, lo, hi>> printed by the core range error, or << >>
    exitCode       \* -1 while running, then the value returned by main

vars == << platform, argv, pc, pid_long, core_id, num_cpus, passedPid, mask,
           hProcess, openHandles, closeCount, lastError, failedErr, errReported,
           applyOk, exc, calls, out, rangeMsg, exitCode >>

-----------------------------------------------------------------------------
(* Bounds of the model *)

MaxLen == 2        \* longest argument string enumerated over the alphabet
MaxArgc == 4       \* largest argc
MaxCpus == 4       \* largest core count the host reports

-----------------------------------------------------------------------------
(* Characters and strings *)

Digits == << "0", "1", "2", "3", "4", "5", "6", "7", "8", "9" >>

IsDigit(c) == \E i \in 1..10 : Digits[i] = c

DigitVal(c) == (CHOOSE i \in 1..10 : Digits[i] = c) - 1

IsSpace(c) == c = " "

Alphabet == { "0", "1", "-", " ", "a" }

RECURSIVE StringsOfLen(_)
StringsOfLen(n) ==
    IF n = 0 THEN { << >> }
    ELSE { Append(s, c) : s \in StringsOfLen(n - 1), c \in Alphabet }

ShortStrings == UNION { StringsOfLen(n) : n \in 0..MaxLen }

\* the decimal literal with the given digits, negative when neg
Lit(neg, ds) ==
    (IF neg THEN << "-" >> ELSE << >>) \o [ i \in 1..Len(ds) |-> Digits[ds[i] + 1] ]

Literals ==
    { Lit(FALSE, <<1,2>>) \o << "a", "b", "c" >>,                    \* 12abc
      << "+" >> \o Lit(FALSE, <<1>>),                                \* +1
      Lit(FALSE, <<1,2,3>>),
      Lit(FALSE, <<8>>),
      Lit(FALSE, <<6,4>>),
      Lit(FALSE, <<1,0,2,3>>),
      Lit(FALSE, <<1,0,2,4>>),
      Lit(FALSE, <<9,9,9,9,9,9,9,9>>),
      Lit(FALSE, <<2,1,4,7,4,8,3,6,4,7>>),                           \* INT_MAX
      Lit(FALSE, <<2,1,4,7,4,8,3,6,4,8>>),
      Lit(TRUE,  <<2,1,4,7,4,8,3,6,4,8>>),                           \* INT_MIN
      Lit(TRUE,  <<2,1,4,7,4,8,3,6,4,9>>),
      Lit(FALSE, <<4,2,9,4,9,6,7,2,9,6>>),                           \* 2^32
      Lit(FALSE, <<4,2,9,4,9,6,7,2,9,7>>),
      Lit(FALSE, <<9,2,2,3,3,7,2,0,3,6,8,5,4,7,7,5,8,0,7>>),         \* 2^63 - 1
      Lit(FALSE, <<9,2,2,3,3,7,2,0,3,6,8,5,4,7,7,5,8,0,8>>),
      Lit(TRUE,  <<9,2,2,3,3,7,2,0,3,6,8,5,4,7,7,5,8,0,8>>),         \* -2^63
      Lit(TRUE,  <<9,2,2,3,3,7,2,0,3,6,8,5,4,7,7,5,8,0,9>>),
      Lit(FALSE, <<9,9,9,9,9,9,9,9,9,9,9,9,9,9,9,9,9,9,9,9,9,9,9>>) }

Args == ShortStrings \cup Literals

\* the arguments used when there are not exactly two of them
FewArgs == { << >>, << "1" >>, << "a" >>, Lit(FALSE, <<1,2>>) \o << "a", "b", "c" >> }

RECURSIVE VectorsOfLen(_, _)
VectorsOfLen(S, n) ==
    IF n = 0 THEN { << >> }
    ELSE { Append(v, a) : v \in VectorsOfLen(S, n - 1), a \in S }

ArgVectors ==
    VectorsOfLen(Args, 2)
    \cup UNION { VectorsOfLen(FewArgs, n) : n \in (0..(MaxArgc - 1)) \ {2} }

argc == Len(argv) + 1

-----------------------------------------------------------------------------
(* Integers of the machine: sign and 64-bit magnitude in four 16-bit limbs *)

Base == 256 * 256

Zero4 == << 0, 0, 0, 0 >>

ZeroVal == [ neg |-> FALSE, mag |-> Zero4 ]

\* m * 10 + d, with the carry out of the fourth limb
MulAdd10(m, d) ==
    LET c1 == m[1] * 10 + d
        c2 == m[2] * 10 + (c1 \div Base)
        c3 == m[3] * 10 + (c2 \div Base)
        c4 == m[4] * 10 + (c3 \div Base)
    IN  [ mag |-> << c1 % Base, c2 % Base, c3 % Base, c4 % Base >>,
          carry |-> c4 \div Base ]

LtMag(a, b) == \E i \in 1..4 : a[i] < b[i] /\ \A j \in (i + 1)..4 : a[j] = b[j]

LeqMag(a, b) == a = b \/ LtMag(a, b)

\* 2^(bits-1) as a magnitude, for bits in {32, 64}
HalfRange(bits) == IF bits = 32 THEN << 0, 32768, 0, 0 >> ELSE << 0, 0, 0, 32768 >>

\* a signed integer of the given width can hold the value: -2^(bits-1) <= v < 2^(bits-1)
Representable(v, bits) ==
    IF v.neg THEN LeqMag(v.mag, HalfRange(bits)) ELSE LtMag(v.mag, HalfRange(bits))

\* 2^64 - m (mod 2^64): two's complement negation
Neg64(m) ==
    LET n1 == (Base - 1 - m[1]) + 1
        n2 == (Base - 1 - m[2]) + (n1 \div Base)
        n3 == (Base - 1 - m[3]) + (n2 \div Base)
        n4 == (Base - 1 - m[4]) + (n3 \div Base)
    IN  << n1 % Base, n2 % Base, n3 % Base, n4 % Base >>

\* the 64-bit two's complement bit pattern of a value
Bits64(v) == IF v.neg THEN Neg64(v.mag) ELSE v.mag

Low32(b) == << b[1], b[2], 0, 0 >>

\* a 32-bit pattern read as a signed integer
AsSigned32(b) ==
    IF b[2] >= 32768 THEN [ neg |-> TRUE, mag |-> Low32(Neg64(b)) ]
    ELSE [ neg |-> FALSE, mag |-> Low32(b) ]

\* a 32-bit pattern read as an unsigned integer
AsUnsigned32(b) == [ neg |-> FALSE, mag |-> Low32(b) ]

\* a value stored into an int (32 bits, two's complement), as an integer of the model
ToInt(v) ==
    LET w == AsSigned32(Low32(Bits64(v)))
    IN  IF w.neg /\ w.mag = HalfRange(32) THEN (-2147483647) - 1
        ELSE (IF w.neg THEN -1 ELSE 1) * (w.mag[1] + w.mag[2] * Base)

-----------------------------------------------------------------------------
(* std::stol and std::stoi (base 10, no position output) *)

RECURSIVE SkipSpace(_, _)
SkipSpace(s, i) ==
    IF i <= Len(s) /\ IsSpace(s[i]) THEN SkipSpace(s, i + 1) ELSE i

\* consume the run of digits starting at s[i]; ovf is set once the magnitude
\* no longer fits 64 bits and stays set
RECURSIVE Accumulate(_, _, _, _)
Accumulate(s, i, m, ovf) ==
    IF i > Len(s) \/ ~IsDigit(s[i]) THEN [ mag |-> m, ovf |-> ovf, end |-> i ]
    ELSE LET r == MulAdd10(m, DigitVal(s[i]))
             o == ovf \/ r.carry > 0
         IN  Accumulate(s, i + 1, IF o THEN m ELSE r.mag, o)

\* strtol(s, &end, 10) for a long of the given width:
\* "invalid" when no digit was consumed, "range" on ERANGE
Strtol(s, bits) ==
    LET i0  == SkipSpace(s, 1)
        sgn == i0 <= Len(s) /\ s[i0] \in { "-", "+" }
        neg == sgn /\ s[i0] = "-"
        i1  == IF sgn THEN i0 + 1 ELSE i0
        a   == Accumulate(s, i1, Zero4, FALSE)
        v   == [ neg |-> neg /\ a.mag # Zero4, mag |-> a.mag ]
    IN  IF a.end = i1 THEN [ status |-> "invalid", val |-> ZeroVal ]
        ELSE IF a.ovf \/ ~Representable([ neg |-> neg, mag |-> a.mag ], bits)
             THEN [ status |-> "range", val |-> ZeroVal ]
             ELSE [ status |-> "ok", val |-> v ]

\* width of long: 32 bits on Windows (LLP64), 64 bits elsewhere (LP64)
LongBits(plat) == IF plat = "win" THEN 32 ELSE 64

\* std::stol(argv[1])
Stol(s, plat) == Strtol(s, LongBits(plat))

\* a variant of stoi that stores the long without checking that it fits int
Stoi_Unchecked(s, plat) == Strtol(s, LongBits(plat))

\* std::stoi(argv[2]): strtol, then the result must fit int
Stoi(s, plat) ==
    LET r == Strtol(s, LongBits(plat))
    IN  IF r.status = "ok" /\ ~Representable(r.val, 32)
        THEN [ status |-> "range", val |-> ZeroVal ]
        ELSE r

-----------------------------------------------------------------------------
(* The pieces of main and set_process_affinity *)

\* a variant of the check that lets extra arguments through
WrongArgc_AtLeast(n) == n < 3

\* main: if (argc != 3)
WrongArgc(n) == n # 3

\* what the host may answer to the core count query: dwNumberOfProcessors is
\* at least 1, sysconf may fail with -1
HostAnswers(plat) == IF plat = "win" THEN 1..MaxCpus ELSE (-1)..MaxCpus

get_hardware_concurrency(plat, answer) ==
    IF plat = "win" THEN answer
    ELSE IF answer > 0 THEN answer ELSE 0

\* a variant of the bounds check that is off by one at the upper end
CoreOutOfRange_OffByOne(c, n) == n > 0 /\ (c < 0 \/ c > n)

\* a variant of the bounds check that takes a count of 0 literally
CoreOutOfRange_ZeroCores(c, n) == c < 0 \/ c >= n

\* main: num_cpus > 0 && (core_id < 0 || static_cast<unsigned int>(core_id) >= num_cpus)
\* (the cast is evaluated for core_id >= 0 only, where it is the identity)
CoreOutOfRange(c, n) == n > 0 /\ (c < 0 \/ c >= n)

\* the implicit conversion of pid_long to the parameter type of set_process_affinity:
\* unsigned long (32 bits), pid_t (32 bits, signed), long
ConvertPid(plat, v) ==
    IF plat = "win" THEN AsUnsigned32(Low32(Bits64(v)))
    ELSE IF plat = "linux" THEN AsSigned32(Low32(Bits64(v)))
    ELSE v

MaskBits == 64

\* DWORD_PTR affinity_mask = 1ULL << core_id: the possible results; a shift by
\* a negative count or by 64 or more is undefined
ShiftMask(c) ==
    IF 0 <= c /\ c < MaskBits THEN { { c } }
    ELSE { {}, { c % MaskBits } }

CPU_SETSIZE == 1024

CPU_ZERO == {}

\* CPU_SET(cpu, &set): no effect when cpu (as size_t) is not below CPU_SETSIZE
CPU_SET(c, set) == IF 0 <= c /\ c < CPU_SETSIZE THEN set \cup { c } ELSE set

\* error codes the operating system may set
ErrCodes == { 5, 87 }

\* if (!SetProcessAffinityMask(hProcess, affinity_mask)), result a BOOL
WinApplyFailed(result) == result = 0

\* a variant of the test that misses the -1 that sched_setaffinity returns on failure
LinuxApplyFailed_Positive(result) == result > 0

\* if (result != 0), result the return value of sched_setaffinity
LinuxApplyFailed(result) == result # 0

-----------------------------------------------------------------------------
(* The state machine *)

inVars == << platform, argv >>
parseVars == << pid_long, core_id >>
winVars == << hProcess, openHandles, closeCount, lastError, failedErr, errReported >>
outVars == << out, rangeMsg, exitCode >>

Init ==
    /\ platform \in { "win", "linux", "other" }
    /\ argv \in ArgVectors
    /\ pc = "main"
    /\ pid_long = ZeroVal
    /\ core_id = 0
    /\ num_cpus = 0
    /\ passedPid = ZeroVal
    /\ mask = {}
    /\ hProcess = "NULL"
    /\ openHandles = 0
    /\ closeCount = 0
    /\ lastError = 0
    /\ failedErr = 0
    /\ errReported = 0
    /\ applyOk = "none"
    /\ exc = "none"
    /\ calls = << >>
    /\ out = << >>
    /\ rangeMsg = << >>
    /\ exitCode = -1

\* main, lines 80-83
CheckArgc ==
    /\ pc = "main"
    /\ IF WrongArgc(argc)
       THEN /\ out' = Append(out, "usage")
            /\ exitCode' = 1
            /\ pc' = "done"
       ELSE /\ pc' = "stol"
            /\ UNCHANGED << out, exitCode >>
    /\ UNCHANGED << inVars, parseVars, num_cpus, passedPid, mask, winVars,
                    applyOk, exc, calls, rangeMsg >>

\* the two catch clauses of main's first try block
ParseFailed(status) ==
    /\ out' = out \o << (IF status = "invalid" THEN "invalid_argument" ELSE "out_of_range"),
                        "usage" >>
    /\ exitCode' = 1
    /\ pc' = "done"

\* pid_long = std::stol(argv[1])
ParsePid ==
    /\ pc = "stol"
    /\ calls' = Append(calls, "stol")
    /\ LET r == Stol(argv[1], platform)
       IN  IF r.status = "ok"
           THEN /\ pid_long' = r.val
                /\ pc' = "stoi"
                /\ UNCHANGED << out, exitCode >>
           ELSE /\ ParseFailed(r.status)
                /\ UNCHANGED pid_long
    /\ UNCHANGED << inVars, core_id, num_cpus, passedPid, mask, winVars,
                    applyOk, exc, rangeMsg >>

\* core_id = std::stoi(argv[2])
ParseCore ==
    /\ pc = "stoi"
    /\ calls' = Append(calls, "stoi")
    /\ LET r == Stoi(argv[2], platform)
       IN  IF r.status = "ok"
           THEN /\ core_id' = ToInt(r.val)
                /\ pc' = "count"
                /\ UNCHANGED << out, exitCode >>
           ELSE /\ ParseFailed(r.status)
                /\ UNCHANGED core_id
    /\ UNCHANGED << inVars, pid_long, num_cpus, passedPid, mask, winVars,
                    applyOk, exc, rangeMsg >>

\* unsigned int num_cpus = get_hardware_concurrency()
QueryCores ==
    /\ pc = "count"
    /\ \E answer \in HostAnswers(platform) :
           num_cpus' = get_hardware_concurrency(platform, answer)
    /\ calls' = Append(calls, IF platform = "win" THEN "GetSystemInfo" ELSE "sysconf")
    /\ pc' = "check"
    /\ UNCHANGED << inVars, parseVars, passedPid, mask, winVars, applyOk, exc, outVars >>

\* main, lines 102-106
CheckRange ==
    /\ pc = "check"
    /\ IF CoreOutOfRange(core_id, num_cpus)
       THEN /\ out' = Append(out, "core_range")
            /\ rangeMsg' = << core_id, 0, num_cpus - 1 >>
            /\ exitCode' = 1
            /\ pc' = "done"
       ELSE /\ pc' = "call"
            /\ UNCHANGED outVars
    /\ UNCHANGED << inVars, parseVars, num_cpus, passedPid, mask, winVars,
                    applyOk, exc, calls >>

\* main, line 109: the call, and the first statement of the callee
CallSetAffinity ==
    /\ pc = "call"
    /\ calls' = Append(calls, "set_process_affinity")
    /\ passedPid' = ConvertPid(platform, pid_long)
    /\ IF platform = "win"
       THEN out' = Append(out, "running_windows") /\ pc' = "win_open"
       ELSE IF platform = "linux"
       THEN out' = Append(out, "running_linux") /\ pc' = "linux_apply"
       ELSE out' = out /\ pc' = "other_throw"
    /\ UNCHANGED << inVars, parseVars, num_cpus, mask, winVars, applyOk, exc,
                    rangeMsg, exitCode >>

\* Windows: HANDLE hProcess = OpenProcess(..., pid)
WinOpen ==
    /\ pc = "win_open"
    /\ calls' = Append(calls, "OpenProcess")
    /\ \/ /\ hProcess' = "H"
          /\ openHandles' = openHandles + 1
          /\ pc' = "win_set"
          /\ UNCHANGED << lastError, failedErr >>
       \/ /\ hProcess' = "NULL"
          /\ \E e \in ErrCodes : lastError' = e /\ failedErr' = e
          /\ pc' = "win_open_failed"
          /\ UNCHANGED openHandles
    /\ UNCHANGED << inVars, parseVars, num_cpus, passedPid, mask, closeCount,
                    errReported, applyOk, exc, outVars >>

\* Windows, lines 40-43: throw with GetLastError()
WinOpenFailed ==
    /\ pc = "win_open_failed"
    /\ calls' = Append(calls, "GetLastError")
    /\ errReported' = lastError
    /\ exc' = "cannot_open"
    /\ pc' = "catch"
    /\ UNCHANGED << inVars, parseVars, num_cpus, passedPid, mask, hProcess,
                    openHandles, closeCount, lastError, failedErr, applyOk, outVars >>

\* Windows, lines 45-47: build the mask and apply it; an empty mask is rejected
WinSet ==
    /\ pc = "win_set"
    /\ calls' = Append(calls, "SetProcessAffinityMask")
    /\ \E m \in ShiftMask(core_id), result \in { 0, 1 } :
          /\ mask' = m
          /\ (m = {} => result = 0)
          /\ IF result = 0
             THEN /\ \E e \in ErrCodes : lastError' = e /\ failedErr' = e
                  /\ applyOk' = "failed"
             ELSE /\ applyOk' = "ok"
                  /\ UNCHANGED << lastError, failedErr >>
          /\ pc' = IF WinApplyFailed(result) THEN "win_rejected" ELSE "win_ok"
    /\ UNCHANGED << inVars, parseVars, num_cpus, passedPid, hProcess, openHandles,
                    closeCount, errReported, exc, outVars >>

\* CloseHandle(hProcess): the handle is released
CloseHandle ==
    /\ calls' = Append(calls, "CloseHandle")
    /\ openHandles' = openHandles - 1
    /\ closeCount' = closeCount + 1

\* a variant of the rejected path that forgets to release the handle
WinRejectedClose_Leak ==
    /\ pc = "win_rejected"
    /\ pc' = "win_rejected_throw"
    /\ UNCHANGED << inVars, parseVars, num_cpus, passedPid, mask, winVars,
                    applyOk, exc, calls, outVars >>

\* Windows, line 48; CloseHandle may leave the last-error value alone or
\* overwrite it
WinRejectedClose ==
    /\ pc = "win_rejected"
    /\ CloseHandle
    /\ lastError' \in { lastError, 0 } \cup ErrCodes
    /\ pc' = "win_rejected_throw"
    /\ UNCHANGED << inVars, parseVars, num_cpus, passedPid, mask, hProcess,
                    failedErr, errReported, applyOk, exc, outVars >>

\* Windows, line 49: throw with GetLastError()
WinRejectedThrow ==
    /\ pc = "win_rejected_throw"
    /\ calls' = Append(calls, "GetLastError")
    /\ errReported' = lastError
    /\ exc' = "cannot_set"
    /\ pc' = "catch"
    /\ UNCHANGED << inVars, parseVars, num_cpus, passedPid, mask, hProcess,
                    openHandles, closeCount, lastError, failedErr, applyOk, outVars >>

\* Windows, lines 52-55
WinSuccess ==
    /\ pc = "win_ok"
    /\ out' = Append(out, "success")
    /\ CloseHandle
    /\ pc' = "return0"
    /\ UNCHANGED << inVars, parseVars, num_cpus, passedPid, mask, hProcess,
                    lastError, failedErr, errReported, applyOk, exc, rangeMsg, exitCode >>

\* Linux, lines 61-70; an empty set is rejected by the kernel
LinuxApply ==
    /\ pc = "linux_apply"
    /\ mask' = CPU_SET(core_id, CPU_ZERO)
    /\ calls' = Append(calls, "sched_setaffinity")
    /\ \E result \in { 0, -1 } :
          /\ (mask' = {} => result = -1)
          /\ applyOk' = IF result = 0 THEN "ok" ELSE "failed"
          /\ IF LinuxApplyFailed(result)
             THEN /\ exc' = "sched_failed"
                  /\ pc' = "catch"
                  /\ UNCHANGED out
             ELSE /\ out' = Append(out, "success")
                  /\ pc' = "return0"
                  /\ UNCHANGED exc
    /\ UNCHANGED << inVars, parseVars, num_cpus, passedPid, winVars, rangeMsg, exitCode >>

\* any other platform, line 75
Unsupported ==
    /\ pc = "other_throw"
    /\ exc' = "unsupported"
    /\ pc' = "catch"
    /\ UNCHANGED << inVars, parseVars, num_cpus, passedPid, mask, winVars,
                    applyOk, calls, outVars >>

\* main, lines 110-114
MainCatch ==
    /\ pc = "catch"
    /\ out' = out \o << "error", "hint" >>
    /\ exitCode' = 1
    /\ pc' = "done"
    /\ UNCHANGED << inVars, parseVars, num_cpus, passedPid, mask, winVars,
                    applyOk, exc, calls, rangeMsg >>

\* main, line 116
MainReturn ==
    /\ pc = "return0"
    /\ exitCode' = 0
    /\ pc' = "done"
    /\ UNCHANGED << inVars, parseVars, num_cpus, passedPid, mask, winVars,
                    applyOk, exc, calls, out, rangeMsg >>

Next ==
    \/ CheckArgc
    \/ ParsePid
    \/ ParseCore
    \/ QueryCores
    \/ CheckRange
    \/ CallSetAffinity
    \/ WinOpen
    \/ WinOpenFailed
    \/ WinSet
    \/ WinRejectedClose
    \/ WinRejectedThrow
    \/ WinSuccess
    \/ LinuxApply
    \/ Unsupported
    \/ MainCatch
    \/ MainReturn

Spec == Init /\ [][Next]_vars

-----------------------------------------------------------------------------
(* Vocabulary of the properties *)

Called(name) == \E i \in 1..Len(calls) : calls[i] = name

Printed(kind) == \E i \in 1..Len(out) : out[i] = kind

\* the calls into the operating system's affinity facility
AffinityCalls == { "OpenProcess", "SetProcessAffinityMask", "CloseHandle",
                   "GetLastError", "sched_setaffinity" }

NoAffinityCall == \A i \in 1..Len(calls) : calls[i] \notin AffinityCalls

\* the apply call was made
Applied == Called("SetProcessAffinityMask") \/ Called("sched_setaffinity")

\* the core count was queried
CountQueried == Called("sysconf") \/ Called("GetSystemInfo")

\* set_process_affinity has returned or thrown, or was never entered
OutsideSetAffinity == pc \in { "main", "stol", "stoi", "count", "check", "call",
                               "catch", "return0", "done" }

\* an optional sign followed by one or more digits, and nothing else
IsIntegerLiteral(s) ==
    LET start == IF Len(s) > 0 /\ s[1] \in { "-", "+" } THEN 2 ELSE 1
    IN  /\ start <= Len(s)
        /\ \A i \in start..Len(s) : IsDigit(s[i])

\* an integer literal whose value no signed integer of the given width holds
LiteralExceeds(s, bits) ==
    /\ IsIntegerLiteral(s)
    /\ LET start == IF s[1] \in { "-", "+" } THEN 2 ELSE 1
           a == Accumulate(s, start, Zero4, FALSE)
       IN  a.ovf \/ ~Representable([ neg |-> s[1] = "-", mag |-> a.mag ], bits)

\* some argument is an integer literal too large for the type it is parsed into
SomeLiteralExceeds ==
    /\ argc = 3
    /\ \/ LiteralExceeds(argv[1], LongBits(platform))
       \/ LiteralExceeds(argv[2], 32)

-----------------------------------------------------------------------------
(* C1 *)

\* C1: whenever argc is not 3, main prints the usage text and returns 1 in its
\* first step, and makes no call at all: no stol or stoi, no core count query,
\* no affinity call.
C1_WrongArgcUsageOnly ==
    (argc # 3 /\ pc # "main") =>
        /\ pc = "done"
        /\ exitCode = 1
        /\ out = << "usage" >>
        /\ calls = << >>

\* a run with three arguments, the first two of them parseable, has ended
C1_Witness ==
    /\ argc = 4
    /\ argv[1] = << "1" >>
    /\ argv[2] = << "1" >>
    /\ pc = "done"

-----------------------------------------------------------------------------
(* C2 *)

\* C2: if either argument is not an integer literal, set_process_affinity is
\* never called and the run ends with exit code 1.
C2_NonIntegerRejected ==
    (argc = 3 /\ (~IsIntegerLiteral(argv[1]) \/ ~IsIntegerLiteral(argv[2]))) =>
        /\ ~Called("set_process_affinity")
        /\ (pc = "done" => exitCode = 1)

-----------------------------------------------------------------------------
(* C3 *)

\* C3: with a reported core count N > 0, a core_id outside [0, N) ends the run
\* with exit code 1 and the message naming the range 0 to N-1, without a call
\* of set_process_affinity; and whenever set_process_affinity is called with
\* N > 0, 0 <= core_id < N.
C3_RangeEnforced ==
    /\ (CountQueried /\ pc # "check" /\ num_cpus > 0
            /\ (core_id < 0 \/ core_id >= num_cpus)) =>
          /\ pc = "done"
          /\ exitCode = 1
          /\ out = << "core_range" >>
          /\ rangeMsg = << core_id, 0, num_cpus - 1 >>
          /\ ~Called("set_process_affinity")
    /\ (Called("set_process_affinity") /\ num_cpus > 0) =>
          (0 <= core_id /\ core_id < num_cpus)

\* the run was ended by the range check, for a core_id equal to the core count
C3_Witness ==
    /\ pc = "done"
    /\ num_cpus > 0
    /\ core_id = num_cpus
    /\ rangeMsg = << core_id, 0, num_cpus - 1 >>

-----------------------------------------------------------------------------
(* C4 *)

\* C4: when the core count query yields the sentinel 0, the range error is
\* never printed and, once past the bounds check, set_process_affinity is
\* called, whatever pid and core_id were parsed.
C4_SentinelSkipsCheck ==
    (CountQueried /\ num_cpus = 0) =>
        /\ ~Printed("core_range")
        /\ (pc \notin { "check", "call" } => Called("set_process_affinity"))

\* set_process_affinity was called with a negative core_id under the sentinel
C4_Witness ==
    /\ CountQueried
    /\ num_cpus = 0
    /\ core_id < 0
    /\ Called("set_process_affinity")

-----------------------------------------------------------------------------
(* C5 *)

\* C5: main returns 0 or 1 only, and returns 0 exactly when the apply call
\* was made and succeeded.
C5_ExitCodes ==
    /\ exitCode \in { -1, 0, 1 }
    /\ (pc = "done") <=> (exitCode # -1)
    /\ pc = "done" => ((exitCode = 0) <=> (Applied /\ applyOk = "ok"))

\* a run that ended with exit code 0
C5_Witness ==
    /\ pc = "done"
    /\ exitCode = 0
    /\ Applied

-----------------------------------------------------------------------------
(* C6 *)

\* C6: the pid handed to the platform call (OpenProcess, sched_setaffinity) is
\* the integer that was parsed from the command line.
C6_PidPassedUnchanged ==
    (Called("OpenProcess") \/ Called("sched_setaffinity")) => passedPid = pid_long

-----------------------------------------------------------------------------
(* C7 *)

\* C7 as stated: when an argument is an integer literal too large for its
\* target type, the run ends with the out-of-range error, exit code 1 and no
\* affinity call.
C7_OverflowPrintsOutOfRange ==
    SomeLiteralExceeds =>
        /\ NoAffinityCall
        /\ ~Called("set_process_affinity")
        /\ pc = "done" => (exitCode = 1 /\ Printed("out_of_range"))

\* C7 as amended: when an argument is an integer literal too large for its
\* target type, the run ends with exit code 1 and no affinity call; the error
\* printed is the out-of-range one, except that it is the invalid-argument one
\* when the pid argument holds no number at all (it is parsed first).
C7_OverflowRejected ==
    SomeLiteralExceeds =>
        /\ NoAffinityCall
        /\ ~Called("set_process_affinity")
        /\ pc = "done" =>
              /\ exitCode = 1
              /\ IF Strtol(argv[1], 64).status = "invalid"
                 THEN out = << "invalid_argument", "usage" >>
                 ELSE out = << "out_of_range", "usage" >>

\* a run ended by a core_id literal one above INT_MAX, after the pid was parsed
C7_Witness ==
    /\ argc = 3
    /\ argv[1] = << "1" >>
    /\ argv[2] = Lit(FALSE, <<2,1,4,7,4,8,3,6,4,8>>)
    /\ pc = "done"
    /\ Printed("out_of_range")

-----------------------------------------------------------------------------
(* C8 *)

\* C8: in the Windows variant no handle is open once set_process_affinity has
\* returned or thrown; a handle that was opened is closed exactly once, and
\* CloseHandle is never called when OpenProcess failed.
C8_HandleReleased ==
    /\ openHandles \in { 0, 1 }
    /\ closeCount + openHandles = (IF hProcess = "H" THEN 1 ELSE 0)
    /\ OutsideSetAffinity => openHandles = 0

\* the apply call was rejected and the exception has left set_process_affinity
C8_Witness ==
    /\ platform = "win"
    /\ pc = "catch"
    /\ exc = "cannot_set"
    /\ closeCount = 1

-----------------------------------------------------------------------------
(* C9 *)

\* C9: whenever the apply call is made, the mask passed to it has exactly one
\* bit set, the one at position core_id.
C9_SingleBitMask == Applied => mask = { core_id }

-----------------------------------------------------------------------------
(* C10 *)

\* C10: every GetLastError read comes directly after the platform call that
\* failed (OpenProcess or SetProcessAffinityMask), with no call in between.
C10_ErrorReadFollowsFailure ==
    \A i \in 1..Len(calls) :
        calls[i] = "GetLastError" =>
            /\ i > 1
            /\ calls[i - 1] \in { "OpenProcess", "SetProcessAffinityMask" }

====
